---- MODULE Spec2Model ----
(***************************************************************************)
(* A model of the boolfuck interpreter of src/src/lib.rs: the bit codec    *)
(* (mod utils), and the execution engine (mod interpreter).                *)
(*                                                                         *)
(* Indices follow the source: pointer and program_pointer are 0-based, so  *)
(* the cell under the pointer is tape[pointer + 1] in a TLA+ sequence.     *)
(***************************************************************************)
EXTENDS Integers, Sequences, FiniteSets, TLC

(***************************************************************************)
(* Bounds of the model.                                                    *)
(***************************************************************************)
\* Longest program enumerated exhaustively over the seven instructions.
MaxProgLen == 4
\* Longest input bit sequence handed to Interpreter::new.
MaxInputLen == 2
\* Number of fetch-execute iterations followed in one run.
MaxSteps == 32
\* Longest byte sequence handed to the codec (over SampleBytes).
MaxBytes == 2
\* Longest bit sequence handed to the codec.
MaxBits == 10
\* Longest program text handed to parse on its own.
MaxTextLen == 3
\* Largest k for which boolfuck is called on 8*k repetitions of `,;`.
MaxEchoBytes == 2

(***************************************************************************)
(* enum Bit, enum Instruction                                              *)
(***************************************************************************)
Zero == "Zero"
One == "One"
Bit == {Zero, One}

Instruction == {"Flip", "Read", "Write", "MoveLeft", "MoveRight", "SkipRight", "SkipLeft"}

\* Bit::flip
bit_flip_set(b) == One

bit_flip(b) == IF b = Zero THEN One ELSE Zero

(***************************************************************************)
(* mod utils: u8 arithmetic                                                *)
(***************************************************************************)
\* Width of u8 and the value range it gives.
U8Bits == 8
U8 == 0 .. (2 ^ U8Bits - 1)

\* `1 << i` on u8.
Shl(x, i) == (x * 2 ^ i) % (2 ^ U8Bits)

RECURSIVE BitOp(_, _, _, _)
\* Bitwise combination of two u8 values, bit by bit over the width n.
BitOp(op, a, b, n) ==
    IF n = 0 THEN 0
    ELSE LET x == a % 2
             y == b % 2
             r == IF op = "and" THEN x * y ELSE (IF x + y > 0 THEN 1 ELSE 0)
         IN  r + 2 * BitOp(op, a \div 2, b \div 2, n - 1)

\* `a & b` and `a | b` on u8.
BitAnd(a, b) == BitOp("and", a, b, U8Bits)
BitOr(a, b) == BitOp("or", a, b, U8Bits)

RECURSIVE bits_from_u8_loop(_, _, _)
\* The loop `for i in 0 .. 8` of bits_from_u8, from iteration i with res so far.
bits_from_u8_loop(num, i, res) ==
    IF i >= 8 THEN res
    ELSE bits_from_u8_loop(num, i + 1,
            Append(res, IF BitAnd(num, Shl(1, i)) = Shl(1, i) THEN One ELSE Zero))

RECURSIVE bits_from_u8_msb_loop(_, _, _)
bits_from_u8_msb_loop(num, i, res) ==
    IF i >= 8 THEN res
    ELSE bits_from_u8_msb_loop(num, i + 1,
            Append(res, IF BitAnd(num, Shl(1, 7 - i)) = Shl(1, 7 - i) THEN One ELSE Zero))

bits_from_u8_msb(num) == bits_from_u8_msb_loop(num, 0, <<>>)

\* bits_from_u8
bits_from_u8(num) == bits_from_u8_loop(num, 0, <<>>)

RECURSIVE u8_from_bits_loop(_, _, _)
\* The loop over bits.iter().enumerate() of u8_from_bits, from index i.
u8_from_bits_loop(bits, i, res) ==
    IF i >= Len(bits) THEN res
    ELSE u8_from_bits_loop(bits, i + 1,
            IF bits[i + 1] = One THEN BitOr(res, Shl(1, i)) ELSE res)

RECURSIVE u8_from_bits_msb_loop(_, _, _)
u8_from_bits_msb_loop(bits, i, res) ==
    IF i >= Len(bits) THEN res
    ELSE u8_from_bits_msb_loop(bits, i + 1,
            IF bits[i + 1] = One THEN BitOr(res, Shl(1, 7 - i)) ELSE res)

u8_from_bits_msb(bits) == u8_from_bits_msb_loop(bits, 0, 0)

\* u8_from_bits
u8_from_bits(bits) == u8_from_bits_loop(bits, 0, 0)

RECURSIVE from_bytes_rev(_)
from_bytes_rev(v) ==
    IF v = <<>> THEN <<>>
    ELSE from_bytes_rev(Tail(v)) \o bits_from_u8(Head(v))

RECURSIVE from_bytes(_)
\* from_bytes: flat_map of bits_from_u8 over the bytes, in order.
from_bytes(v) ==
    IF v = <<>> THEN <<>>
    ELSE bits_from_u8(Head(v)) \o from_bytes(Tail(v))

RECURSIVE chunks(_, _)
\* slice::chunks(n): consecutive groups of n elements, the last one may be shorter.
chunks(v, n) ==
    IF v = <<>> THEN <<>>
    ELSE IF Len(v) <= n THEN <<v>>
    ELSE <<SubSeq(v, 1, n)>> \o chunks(SubSeq(v, n + 1, Len(v)), n)

to_bytes_drop_partial(v) ==
    LET c == chunks(v, 8)
        full == SelectSeq(c, LAMBDA chunk : Len(chunk) = 8)
    IN  [j \in 1 .. Len(full) |-> u8_from_bits(full[j])]

\* to_bytes: chunks(8) mapped through u8_from_bits.
to_bytes(v) ==
    LET c == chunks(v, 8)
    IN  [j \in 1 .. Len(c) |-> u8_from_bits(c[j])]

(***************************************************************************)
(* mod parser.  A character is a string of length one; an Option is a      *)
(* record whose `some` says whether it holds a value.                      *)
(***************************************************************************)
parse_instruction_swapped(ch) ==
    CASE ch = "+" -> [some |-> TRUE, value |-> "Flip"]
      [] ch = "," -> [some |-> TRUE, value |-> "Read"]
      [] ch = ";" -> [some |-> TRUE, value |-> "Write"]
      [] ch = "<" -> [some |-> TRUE, value |-> "MoveRight"]
      [] ch = ">" -> [some |-> TRUE, value |-> "MoveLeft"]
      [] ch = "[" -> [some |-> TRUE, value |-> "SkipRight"]
      [] ch = "]" -> [some |-> TRUE, value |-> "SkipLeft"]
      [] OTHER -> [some |-> FALSE, value |-> "None"]

\* parser::parse_instruction
parse_instruction(ch) ==
    CASE ch = "+" -> [some |-> TRUE, value |-> "Flip"]
      [] ch = "," -> [some |-> TRUE, value |-> "Read"]
      [] ch = ";" -> [some |-> TRUE, value |-> "Write"]
      [] ch = "<" -> [some |-> TRUE, value |-> "MoveLeft"]
      [] ch = ">" -> [some |-> TRUE, value |-> "MoveRight"]
      [] ch = "[" -> [some |-> TRUE, value |-> "SkipRight"]
      [] ch = "]" -> [some |-> TRUE, value |-> "SkipLeft"]
      [] OTHER -> [some |-> FALSE, value |-> "None"]

RECURSIVE parse(_)
\* parser::parse: filter_map of parse_instruction over the characters, in order.
parse(code) ==
    IF code = <<>> THEN <<>>
    ELSE LET r == parse_instruction(Head(code))
         IN  IF r.some THEN <<r.value>> \o parse(Tail(code)) ELSE parse(Tail(code))

(***************************************************************************)
(* mod interpreter: struct Interpreter and its methods.  A value of the    *)
(* struct is a record; `panic` records that the method unwound (a failed   *)
(* unwrap or an index out of bounds) at the point the fields show.         *)
(***************************************************************************)
\* Interpreter::new
new(prog, inp) ==
    [tape |-> <<Zero>>, pointer |-> 0, program_pointer |-> 0, output |-> <<>>,
     matches |-> <<>>, input |-> inp, program |-> prog, panic |-> FALSE]

Panic(s) == [s EXCEPT !.panic = TRUE]

\* Whether `self.tape[self.pointer]` is in bounds (it panics otherwise).
InBounds(s) == s.pointer < Len(s.tape)

\* HashMap::insert
Insert(m, k, v) == [x \in (DOMAIN m) \cup {k} |-> IF x = k THEN v ELSE m[x]]

RECURSIVE create_matches_loop(_, _, _)
\* The loop of create_matches from index i, with the local stack `matches`
\* (here: stack) of pending SkipRight indices.
create_matches_loop(s, i, stack) ==
    IF i >= Len(s.program) THEN s
    ELSE IF s.program[i + 1] = "SkipRight"
         THEN create_matches_loop(s, i + 1, Append(stack, i))
    ELSE IF s.program[i + 1] = "SkipLeft"
         THEN IF stack = <<>>
              THEN Panic(s)
              ELSE LET prev_i == stack[Len(stack)]
                       m == Insert(Insert(s.matches, prev_i, i), i, prev_i)
                   IN  create_matches_loop([s EXCEPT !.matches = m], i + 1,
                                           SubSeq(stack, 1, Len(stack) - 1))
    ELSE create_matches_loop(s, i + 1, stack)

RECURSIVE create_matches_lenient_loop(_, _, _)
create_matches_lenient_loop(s, i, stack) ==
    IF i >= Len(s.program) THEN s
    ELSE IF s.program[i + 1] = "SkipRight"
         THEN create_matches_lenient_loop(s, i + 1, Append(stack, i))
    ELSE IF s.program[i + 1] = "SkipLeft" /\ stack # <<>>
         THEN LET prev_i == stack[Len(stack)]
                  m == Insert(Insert(s.matches, prev_i, i), i, prev_i)
              IN  create_matches_lenient_loop([s EXCEPT !.matches = m], i + 1,
                                              SubSeq(stack, 1, Len(stack) - 1))
    ELSE create_matches_lenient_loop(s, i + 1, stack)

create_matches_lenient(s) == create_matches_lenient_loop(s, 0, <<>>)

RECURSIVE create_matches_fifo_loop(_, _, _)
create_matches_fifo_loop(s, i, stack) ==
    IF i >= Len(s.program) THEN s
    ELSE IF s.program[i + 1] = "SkipRight"
         THEN create_matches_fifo_loop(s, i + 1, Append(stack, i))
    ELSE IF s.program[i + 1] = "SkipLeft"
         THEN IF stack = <<>>
              THEN Panic(s)
              ELSE LET prev_i == Head(stack)
                       m == Insert(Insert(s.matches, prev_i, i), i, prev_i)
                   IN  create_matches_fifo_loop([s EXCEPT !.matches = m], i + 1,
                                                Tail(stack))
    ELSE create_matches_fifo_loop(s, i + 1, stack)

create_matches_fifo(s) == create_matches_fifo_loop(s, 0, <<>>)

\* Interpreter::create_matches
create_matches(s) == create_matches_loop(s, 0, <<>>)

get_matching_pointer_next(s, i) ==
    IF i + 1 \in DOMAIN s.matches
    THEN [panic |-> FALSE, value |-> s.matches[i + 1]]
    ELSE [panic |-> TRUE, value |-> 0]

\* Interpreter::get_matching_pointer: the entry of i; `unwrap` panics on None.
get_matching_pointer(s, i) ==
    IF i \in DOMAIN s.matches
    THEN [panic |-> FALSE, value |-> s.matches[i]]
    ELSE [panic |-> TRUE, value |-> 0]

\* Interpreter::flip
flip(s) ==
    IF ~InBounds(s) THEN Panic(s)
    ELSE [s EXCEPT !.tape[s.pointer + 1] = bit_flip(@),
                   !.program_pointer = @ + 1]

read_from_back(s) ==
    IF ~InBounds(s) THEN Panic(s)
    ELSE IF Len(s.input) = 0
         THEN [s EXCEPT !.tape[s.pointer + 1] = Zero, !.program_pointer = @ + 1]
         ELSE [s EXCEPT !.tape[s.pointer + 1] = s.input[Len(s.input)],
                        !.input = SubSeq(s.input, 1, Len(s.input) - 1),
                        !.program_pointer = @ + 1]

\* Interpreter::read
read(s) ==
    IF ~InBounds(s) THEN Panic(s)
    ELSE IF Len(s.input) = 0
         THEN [s EXCEPT !.tape[s.pointer + 1] = Zero, !.program_pointer = @ + 1]
         ELSE [s EXCEPT !.tape[s.pointer + 1] = Head(s.input),
                        !.input = Tail(s.input),
                        !.program_pointer = @ + 1]

write_front(s) ==
    IF ~InBounds(s) THEN Panic(s)
    ELSE [s EXCEPT !.output = <<s.tape[s.pointer + 1]>> \o @,
                   !.program_pointer = @ + 1]

write_no_advance(s) ==
    IF ~InBounds(s) THEN Panic(s)
    ELSE [s EXCEPT !.output = Append(@, s.tape[s.pointer + 1])]

\* Interpreter::write
write(s) ==
    IF ~InBounds(s) THEN Panic(s)
    ELSE [s EXCEPT !.output = Append(@, s.tape[s.pointer + 1]),
                   !.program_pointer = @ + 1]

move_left_push_back(s) ==
    IF s.pointer = 0
    THEN [s EXCEPT !.tape = Append(@, Zero), !.program_pointer = @ + 1]
    ELSE [s EXCEPT !.pointer = @ - 1, !.program_pointer = @ + 1]

move_left_no_grow(s) ==
    IF s.pointer = 0
    THEN [s EXCEPT !.program_pointer = @ + 1]
    ELSE [s EXCEPT !.pointer = @ - 1, !.program_pointer = @ + 1]

\* Interpreter::move_left
move_left(s) ==
    IF s.pointer = 0
    THEN [s EXCEPT !.tape = <<Zero>> \o @, !.program_pointer = @ + 1]
    ELSE [s EXCEPT !.pointer = @ - 1, !.program_pointer = @ + 1]

move_right_no_grow(s) ==
    {[s EXCEPT !.pointer = @ + 1, !.program_pointer = @ + 1]}

move_right_always_push(s) ==
    {[s EXCEPT !.tape = Append(@, Zero), !.pointer = @ + 1, !.program_pointer = @ + 1]}

\* Interpreter::move_right, as the set of its outcomes.  `self.tape.len() - 1`
\* on an empty tape overflows usize: a panic where overflow is checked, a
\* wrap to usize::MAX (so no push) where it is not.
move_right(s) ==
    IF Len(s.tape) = 0
    THEN {Panic(s), [s EXCEPT !.pointer = @ + 1, !.program_pointer = @ + 1]}
    ELSE IF s.pointer = Len(s.tape) - 1
         THEN {[s EXCEPT !.tape = Append(@, Zero), !.pointer = @ + 1,
                         !.program_pointer = @ + 1]}
         ELSE {[s EXCEPT !.pointer = @ + 1, !.program_pointer = @ + 1]}

skip_left_inverted(s) ==
    IF ~InBounds(s) THEN Panic(s)
    ELSE IF s.tape[s.pointer + 1] = Zero
         THEN LET r == get_matching_pointer(s, s.program_pointer)
              IN  IF r.panic THEN Panic(s) ELSE [s EXCEPT !.program_pointer = r.value]
         ELSE [s EXCEPT !.program_pointer = @ + 1]

\* Interpreter::skip_left
skip_left(s) ==
    IF ~InBounds(s) THEN Panic(s)
    ELSE IF s.tape[s.pointer + 1] = One
         THEN LET r == get_matching_pointer(s, s.program_pointer)
              IN  IF r.panic THEN Panic(s) ELSE [s EXCEPT !.program_pointer = r.value]
         ELSE [s EXCEPT !.program_pointer = @ + 1]

skip_right_inverted(s) ==
    IF ~InBounds(s) THEN Panic(s)
    ELSE IF s.tape[s.pointer + 1] = One
         THEN LET r == get_matching_pointer(s, s.program_pointer)
              IN  IF r.panic THEN Panic(s) ELSE [s EXCEPT !.program_pointer = r.value]
         ELSE [s EXCEPT !.program_pointer = @ + 1]

\* Interpreter::skip_right
skip_right(s) ==
    IF ~InBounds(s) THEN Panic(s)
    ELSE IF s.tape[s.pointer + 1] = Zero
         THEN LET r == get_matching_pointer(s, s.program_pointer)
              IN  IF r.panic THEN Panic(s) ELSE [s EXCEPT !.program_pointer = r.value]
         ELSE [s EXCEPT !.program_pointer = @ + 1]

(***************************************************************************)
(* The reference machine of the refinement: a tape of bits that is         *)
(* infinite in both directions, all Zero at the start, with an integer     *)
(* head.  `ones` is the set of positions holding One.  Its jumps use the   *)
(* bracket structure of the program text, found by counting depth.         *)
(***************************************************************************)
\* Number of positions k in lo..hi (1-based) of prog holding instr.
Count(prog, instr, lo, hi) == Cardinality({k \in lo .. hi : prog[k] = instr})

\* A SkipLeft with no pending SkipRight at its position in the scan.
HasUnmatchedSkipLeft(prog) ==
    \E k \in 1 .. Len(prog) :
        /\ prog[k] = "SkipLeft"
        /\ Count(prog, "SkipLeft", 1, k) > Count(prog, "SkipRight", 1, k)

\* A SkipRight that no later SkipLeft closes.
HasUnclosedSkipRight(prog) ==
    \E k \in 1 .. Len(prog) :
        /\ prog[k] = "SkipRight"
        /\ \A m \in k + 1 .. Len(prog) :
              Count(prog, "SkipLeft", k + 1, m) <= Count(prog, "SkipRight", k + 1, m)

Balanced(prog) == ~HasUnmatchedSkipLeft(prog) /\ ~HasUnclosedSkipRight(prog)

\* The 0-based indices that match the bracket at 0-based index i: none, or
\* the one bracket that brings the depth back.
Matching(prog, i) ==
    IF prog[i + 1] = "SkipRight"
    THEN {m \in i + 1 .. Len(prog) - 1 :
            /\ Count(prog, "SkipLeft", i + 2, m + 1) = Count(prog, "SkipRight", i + 2, m + 1) + 1
            /\ \A n \in i + 1 .. m - 1 :
                  Count(prog, "SkipLeft", i + 2, n + 1) <= Count(prog, "SkipRight", i + 2, n + 1)}
    ELSE {m \in 0 .. i - 1 :
            /\ Count(prog, "SkipRight", m + 1, i) = Count(prog, "SkipLeft", m + 1, i) + 1
            /\ \A n \in m + 1 .. i - 1 :
                  Count(prog, "SkipRight", n + 1, i) <= Count(prog, "SkipLeft", n + 1, i)}

\* The 0-based index of the bracket matching the one at 0-based index i.
MatchOf(prog, i) == CHOOSE m \in Matching(prog, i) : TRUE

AbsInit(inp) == [pc |-> 0, head |-> 0, ones |-> {}, input |-> inp, output |-> <<>>]

AbsBit(a, p) == IF p \in a.ones THEN One ELSE Zero

AbsPut(a, b) == IF b = One THEN a.ones \cup {a.head} ELSE a.ones \ {a.head}

\* One instruction of the reference machine on program prog.
AbsStep(prog, a) ==
    IF a.pc >= Len(prog) THEN a
    ELSE LET instr == prog[a.pc + 1]
             here == AbsBit(a, a.head)
         IN  CASE instr = "Flip" ->
                    [a EXCEPT !.ones = AbsPut(a, bit_flip(here)), !.pc = @ + 1]
               [] instr = "Read" ->
                    IF a.input = <<>>
                    THEN [a EXCEPT !.ones = AbsPut(a, Zero), !.pc = @ + 1]
                    ELSE [a EXCEPT !.ones = AbsPut(a, Head(a.input)),
                                   !.input = Tail(@), !.pc = @ + 1]
               [] instr = "Write" ->
                    [a EXCEPT !.output = Append(@, here), !.pc = @ + 1]
               [] instr = "MoveLeft" -> [a EXCEPT !.head = @ - 1, !.pc = @ + 1]
               [] instr = "MoveRight" -> [a EXCEPT !.head = @ + 1, !.pc = @ + 1]
               [] instr = "SkipRight" ->
                    IF here = Zero THEN [a EXCEPT !.pc = MatchOf(prog, a.pc)]
                    ELSE [a EXCEPT !.pc = @ + 1]
               [] instr = "SkipLeft" ->
                    IF here = One THEN [a EXCEPT !.pc = MatchOf(prog, a.pc)]
                    ELSE [a EXCEPT !.pc = @ + 1]

(***************************************************************************)
(* State                                                                   *)
(***************************************************************************)
VARIABLES
    \* the fields of struct Interpreter
    tape, output, input, program, program_pointer, pointer, matches,
    phase,       \* position in interpret(): "new", "running", "returned",
                 \* "panicked"; "idle" when no interpreter exists
    \* history of the run
    arg_input,   \* the `input` argument of Interpreter::new
    steps,       \* iterations of the fetch-execute loop executed
    reads,       \* Read instructions executed
    writes,      \* Write instructions executed
    origin,      \* current index of the cell the tape was constructed with
    abs,         \* the reference machine, run in lockstep on balanced programs
    excursion,   \* the pointer's moves counted from the start cell: where it
                 \* is (head, negative to the left), and how far left and
                 \* right it has ever been
    flips,       \* the Flips executed in a row just now: how many, and the
                 \* tape before the first of them
    last_skip,   \* the last SkipRight met with Zero under the pointer: the
                 \* number of iterations up to and including it, its index,
                 \* and tape, pointer, input, output as they were before it
    \* the codec caller
    codec_pc,    \* "start", "mid", "done"; "idle" when there is no caller
    codec_in,    \* the caller's argument: [kind |-> "bytes" | "bits", val |-> ...]
    codec_mid,   \* result of the first conversion
    codec_out,   \* result of the second conversion, applied to codec_mid
    \* a call of boolfuck(code, input)
    bf_pc,       \* the statement to run next: "parse", "from_bytes", "new",
                 \* "interpret", "done"; "idle" when there is no call
    code,        \* the `code` argument, a sequence of characters
    in_bytes,    \* the `input` argument, a sequence of u8
    instructions, \* let instructions = parse(code)
    in_bits,     \* let input = from_bytes(&input)
    result       \* the bytes returned

self_vars == <<tape, output, input, program, program_pointer, pointer, matches>>
hist_vars == <<arg_input, steps, reads, writes, origin, abs, excursion, flips,
               last_skip>>
codec_vars == <<codec_pc, codec_in, codec_mid, codec_out>>
bf_vars == <<bf_pc, code, in_bytes, instructions, in_bits, result>>
caller_vars == <<codec_vars, bf_vars>>

vars == <<self_vars, phase, hist_vars, codec_vars, bf_vars>>

\* The interpreter as a value of the struct.
Self ==
    [tape |-> tape, pointer |-> pointer, program_pointer |-> program_pointer,
     output |-> output, matches |-> matches, input |-> input, program |-> program,
     panic |-> FALSE]

\* The fields are those of s.
Is(s) ==
    /\ tape = s.tape
    /\ output = s.output
    /\ input = s.input
    /\ program = s.program
    /\ program_pointer = s.program_pointer
    /\ pointer = s.pointer
    /\ matches = s.matches

\* The fields after a method left the struct as s.
Becomes(s) ==
    /\ tape' = s.tape
    /\ output' = s.output
    /\ input' = s.input
    /\ program' = s.program
    /\ program_pointer' = s.program_pointer
    /\ pointer' = s.pointer
    /\ matches' = s.matches

(***************************************************************************)
(* Inputs                                                                  *)
(***************************************************************************)
SeqsUpTo(S, n) == UNION {[1 .. k -> S] : k \in 0 .. n}

\* The programs of the tests of mod interpreter.
TestPrograms ==
    { <<"Flip", "Flip", "Flip">>,
      <<"MoveLeft">>, <<"MoveLeft", "MoveLeft", "MoveLeft">>,
      <<"MoveRight">>, <<"MoveRight", "MoveRight", "MoveRight">>,
      <<"SkipRight", "Flip", "SkipLeft">>,
      <<"Flip", "MoveRight", "MoveRight", "MoveRight", "Flip",
        "MoveLeft", "MoveLeft", "MoveLeft",
        "SkipRight", "MoveRight", "Flip", "SkipLeft">>,
      <<"Read", "MoveRight", "Read", "MoveRight", "Read">>,
      <<"Read", "Write", "MoveRight", "Read", "Write", "MoveRight", "Read", "Write">> }

\* Longer programs: nested loops, a loop that echoes its input, loops that
\* grow the tape without end in either direction, and malformed brackets
\* met after some instructions ran.
SamplePrograms ==
    { <<"Flip", "SkipRight", "SkipRight", "Flip", "SkipLeft", "SkipLeft">>,
      <<"Read", "SkipRight", "Write", "Read", "SkipLeft", "Write">>,
      <<"Flip", "SkipRight", "MoveRight", "Flip", "SkipLeft">>,
      <<"Flip", "SkipRight", "MoveLeft", "Flip", "SkipLeft">>,
      <<"Flip", "Write", "SkipRight", "Flip", "SkipRight">>,
      <<"Flip", "Write", "MoveLeft", "SkipLeft", "SkipRight">> }

Programs == SeqsUpTo(Instruction, MaxProgLen) \cup TestPrograms \cup SamplePrograms

Inputs == SeqsUpTo(Bit, MaxInputLen)

\* Byte values used in sequences of more than one byte: those of the
\* source's tests, and the two ends of the high bit.
SampleBytes == {0, 1, 2, 3, 6, 7, 128, 255}

\* Every single byte 0..255, and every sequence up to MaxBytes over SampleBytes.
ByteSeqs == {<<b>> : b \in U8} \cup SeqsUpTo(SampleBytes, MaxBytes)

BitSeqs == SeqsUpTo(Bit, MaxBits)

NoExcursion == [head |-> 0, left |-> 0, right |-> 0]

Max(a, b) == IF a >= b THEN a ELSE b

\* The excursion e after one more executed instruction instr.
Moved(e, instr) ==
    LET h == CASE instr = "MoveLeft" -> e.head - 1
               [] instr = "MoveRight" -> e.head + 1
               [] OTHER -> e.head
    IN  [head |-> h, left |-> Max(e.left, -h), right |-> Max(e.right, h)]

NoFlips == [count |-> 0, tape |-> <<>>]

NoSkip ==
    [step |-> -1, from |-> 0, tape |-> <<>>, pointer |-> 0, input |-> <<>>, output |-> <<>>]

NoCodec ==
    /\ codec_pc = "idle"
    /\ codec_in = [kind |-> "bits", val |-> <<>>]
    /\ codec_mid = <<>>
    /\ codec_out = <<>>

NoBoolfuck ==
    /\ bf_pc = "idle"
    /\ code = <<>>
    /\ in_bytes = <<>>
    /\ instructions = <<>>
    /\ in_bits = <<>>
    /\ result = <<>>

\* No interpreter has been constructed.
NoInterpreter ==
    /\ Is(new(<<>>, <<>>))
    /\ phase = "idle"
    /\ arg_input = <<>>
    /\ steps = 0
    /\ reads = 0
    /\ writes = 0
    /\ origin = 0
    /\ abs = AbsInit(<<>>)
    /\ excursion = NoExcursion
    /\ flips = NoFlips
    /\ last_skip = NoSkip

(***************************************************************************)
(* Spec: one run of an interpreter, from Interpreter::new through          *)
(* interpret().                                                            *)
(***************************************************************************)
Init ==
    /\ \E prog \in Programs, inp \in Inputs :
          /\ Is(new(prog, inp))
          /\ arg_input = inp
          /\ abs = AbsInit(inp)
    /\ phase = "new"
    /\ steps = 0
    /\ reads = 0
    /\ writes = 0
    /\ origin = 0
    /\ excursion = NoExcursion
    /\ flips = NoFlips
    /\ last_skip = NoSkip
    /\ NoCodec
    /\ NoBoolfuck

\* interpret(), its first statement: self.create_matches().
CreateMatches ==
    /\ phase = "new"
    /\ LET s == create_matches(Self)
       IN  /\ Becomes(s)
           /\ phase' = IF s.panic THEN "panicked" ELSE "running"
    /\ UNCHANGED <<hist_vars, caller_vars>>

\* The instruction the loop of interpret() fetches.
Fetched == program[program_pointer + 1]

\* One iteration of the loop of interpret(): the match arm of instr, whose
\* method leaves the struct as one of outcomes.
Iteration(instr, outcomes) ==
    /\ phase = "running"
    /\ steps < MaxSteps
    /\ program_pointer < Len(program)
    /\ Fetched = instr
    /\ \E s \in outcomes :
          /\ Becomes(s)
          /\ phase' = IF s.panic THEN "panicked" ELSE "running"
    /\ steps' = steps + 1
    /\ reads' = IF instr = "Read" THEN reads + 1 ELSE reads
    /\ writes' = IF instr = "Write" THEN writes + 1 ELSE writes
       \* tape.insert(0, ..) moves the constructed cell one index up
    /\ origin' = IF instr = "MoveLeft" /\ pointer = 0 THEN origin + 1 ELSE origin
    /\ abs' = IF Balanced(program) THEN AbsStep(program, abs) ELSE abs
    /\ excursion' = Moved(excursion, instr)
    /\ flips' = IF instr # "Flip" THEN NoFlips
                 ELSE IF flips.count = 0 THEN [count |-> 1, tape |-> tape]
                 ELSE [flips EXCEPT !.count = @ + 1]
    /\ last_skip' =
          IF instr = "SkipRight" /\ InBounds(Self) /\ tape[pointer + 1] = Zero
          THEN [step |-> steps + 1, from |-> program_pointer, tape |-> tape,
                pointer |-> pointer, input |-> input, output |-> output]
          ELSE last_skip
    /\ UNCHANGED <<arg_input, caller_vars>>

StepFlip == Iteration("Flip", {flip(Self)})
StepRead == Iteration("Read", {read(Self)})
StepWrite == Iteration("Write", {write(Self)})
StepMoveLeft == Iteration("MoveLeft", {move_left(Self)})
StepMoveRight == Iteration("MoveRight", move_right(Self))
StepSkipLeft == Iteration("SkipLeft", {skip_left(Self)})
StepSkipRight == Iteration("SkipRight", {skip_right(Self)})

\* The loop condition fails: interpret() returns.
InterpretReturn ==
    /\ phase = "running"
    /\ program_pointer >= Len(program)
    /\ phase' = "returned"
    /\ UNCHANGED <<self_vars, hist_vars, caller_vars>>

Next ==
    \/ CreateMatches
    \/ StepFlip
    \/ StepRead
    \/ StepWrite
    \/ StepMoveLeft
    \/ StepMoveRight
    \/ StepSkipLeft
    \/ StepSkipRight
    \/ InterpretReturn

Spec == Init /\ [][Next]_vars

\* The loop of interpret() keeps iterating while its condition holds: no
\* enabled step is put off for ever.
SpecLive == Spec /\ WF_vars(Next)

(***************************************************************************)
(* SpecCodec: the codec on its own.  A caller converts its argument, then  *)
(* converts the result back.                                               *)
(***************************************************************************)
InitCodec ==
    /\ codec_pc = "start"
    /\ codec_in \in [kind : {"bytes"}, val : ByteSeqs] \cup [kind : {"bits"}, val : BitSeqs]
    /\ codec_mid = <<>>
    /\ codec_out = <<>>
    /\ NoInterpreter
    /\ NoBoolfuck

\* A call of from_bytes: on the argument, or on to_bytes's result.
CallFromBytes ==
    /\ \/ /\ codec_pc = "start"
          /\ codec_in.kind = "bytes"
          /\ codec_mid' = from_bytes(codec_in.val)
          /\ codec_pc' = "mid"
          /\ UNCHANGED <<codec_in, codec_out>>
       \/ /\ codec_pc = "mid"
          /\ codec_in.kind = "bits"
          /\ codec_out' = from_bytes(codec_mid)
          /\ codec_pc' = "done"
          /\ UNCHANGED <<codec_in, codec_mid>>
    /\ UNCHANGED <<self_vars, phase, hist_vars, bf_vars>>

\* A call of to_bytes: on the argument, or on from_bytes's result.
CallToBytes ==
    /\ \/ /\ codec_pc = "start"
          /\ codec_in.kind = "bits"
          /\ codec_mid' = to_bytes(codec_in.val)
          /\ codec_pc' = "mid"
          /\ UNCHANGED <<codec_in, codec_out>>
       \/ /\ codec_pc = "mid"
          /\ codec_in.kind = "bytes"
          /\ codec_out' = to_bytes(codec_mid)
          /\ codec_pc' = "done"
          /\ UNCHANGED <<codec_in, codec_mid>>
    /\ UNCHANGED <<self_vars, phase, hist_vars, bf_vars>>

NextCodec == CallFromBytes \/ CallToBytes

SpecCodec == InitCodec /\ [][NextCodec]_vars

(***************************************************************************)
(* fn boolfuck, statement by statement.  Its call of interpret() is the    *)
(* actions of Spec.                                                        *)
(***************************************************************************)
\* let instructions = parse(code);
BfParse ==
    /\ bf_pc = "parse"
    /\ instructions' = parse(code)
    /\ bf_pc' = "from_bytes"
    /\ UNCHANGED <<code, in_bytes, in_bits, result>>
    /\ UNCHANGED <<self_vars, phase, hist_vars, codec_vars>>

\* let input = from_bytes(&input);
BfFromBytes ==
    /\ bf_pc = "from_bytes"
    /\ in_bits' = from_bytes(in_bytes)
    /\ bf_pc' = "new"
    /\ UNCHANGED <<code, in_bytes, instructions, result>>
    /\ UNCHANGED <<self_vars, phase, hist_vars, codec_vars>>

\* let mut interpreter = Interpreter::new(instructions, input);
BfNew ==
    /\ bf_pc = "new"
    /\ Becomes(new(instructions, in_bits))
    /\ phase' = "new"
    /\ arg_input' = in_bits
    /\ abs' = AbsInit(in_bits)
    /\ bf_pc' = "interpret"
    /\ UNCHANGED <<steps, reads, writes, origin, excursion, flips, last_skip>>
    /\ UNCHANGED <<code, in_bytes, instructions, in_bits, result, codec_vars>>

BfReturnTape ==
    /\ bf_pc = "interpret"
    /\ phase = "returned"
    /\ result' = to_bytes(tape)
    /\ bf_pc' = "done"
    /\ UNCHANGED <<code, in_bytes, instructions, in_bits>>
    /\ UNCHANGED <<self_vars, phase, hist_vars, codec_vars>>

\* let output = interpreter.get_output(); to_bytes(output)
BfReturn ==
    /\ bf_pc = "interpret"
    /\ phase = "returned"
    /\ result' = to_bytes(output)
    /\ bf_pc' = "done"
    /\ UNCHANGED <<code, in_bytes, instructions, in_bits>>
    /\ UNCHANGED <<self_vars, phase, hist_vars, codec_vars>>

(***************************************************************************)
(* SpecParse: the call of parse, on every text up to MaxTextLen over the   *)
(* seven recognized characters and some others.                            *)
(***************************************************************************)
RecognizedChars == {"+", ",", ";", "<", ">", "[", "]"}

\* Characters that are not instructions: a letter, a space, and two that
\* are instructions in brainfuck but not here.
OtherChars == {"a", " ", "-", "."}

Texts == SeqsUpTo(RecognizedChars \cup OtherChars, MaxTextLen)

InitParse ==
    /\ bf_pc = "parse"
    /\ code \in Texts
    /\ in_bytes = <<>>
    /\ instructions = <<>>
    /\ in_bits = <<>>
    /\ result = <<>>
    /\ NoInterpreter
    /\ NoCodec

NextParse == BfParse

SpecParse == InitParse /\ [][NextParse]_vars

(***************************************************************************)
(* SpecBoolfuck: a call of boolfuck from start to return.                  *)
(***************************************************************************)
\* The text of 8*k repetitions of `,;`.
EchoText(k) == [n \in 1 .. 16 * k |-> IF n % 2 = 1 THEN "," ELSE ";"]

\* The second program of test_skip as text, followed by a write; and a loop
\* that echoes input bits up to the first Zero, with characters that are not
\* instructions in it.
SampleTexts ==
    { <<"+", ">", ">", ">", "+", "<", "<", "<", "[", ">", "+", "]", ";">>,
      <<",", "[", ";", " ", ",", "]", "a", ";">> }

BoolfuckTexts == {EchoText(k) : k \in 0 .. MaxEchoBytes} \cup SampleTexts

InitBoolfuck ==
    /\ bf_pc = "parse"
    /\ code \in BoolfuckTexts
    /\ in_bytes \in ByteSeqs
    /\ instructions = <<>>
    /\ in_bits = <<>>
    /\ result = <<>>
    /\ NoInterpreter
    /\ NoCodec

NextBoolfuck ==
    \/ BfParse
    \/ BfFromBytes
    \/ BfNew
    \/ CreateMatches
    \/ StepFlip
    \/ StepRead
    \/ StepWrite
    \/ StepMoveLeft
    \/ StepMoveRight
    \/ StepSkipLeft
    \/ StepSkipRight
    \/ InterpretReturn
    \/ BfReturn

SpecBoolfuck == InitBoolfuck /\ [][NextBoolfuck]_vars

(***************************************************************************)
(* Properties of a run (Spec)                                              *)
(***************************************************************************)
\* The run has not touched the machine: no iteration ran, and tape, pointer,
\* input queue and output sequence are as Interpreter::new left them.
Untouched ==
    /\ steps = 0
    /\ tape = <<Zero>>
    /\ pointer = 0
    /\ input = arg_input
    /\ output = <<>>

\* C1: every program with an unclosed SkipRight is rejected at jump-table
\* construction, for every input: once create_matches has run the run has
\* failed, no instruction was executed, and tape, pointer, input queue and
\* output sequence are in their initial state.
C1_UnclosedSkipRightRejected ==
    (HasUnclosedSkipRight(program) /\ phase # "new")
        => (phase = "panicked" /\ Untouched)

\* C2: every program with a SkipLeft that has no pending SkipRight fails in
\* create_matches, before the fetch-execute loop runs, for every input: the
\* program counter is 0, the tape is the single Zero cell, the input queue is
\* untouched and the output sequence is empty.
C2_UnmatchedSkipLeftFails ==
    (HasUnmatchedSkipLeft(program) /\ phase # "new")
        => (phase = "panicked" /\ program_pointer = 0 /\ Untouched)

\* C2 witness: a failed run of such a program, on a non-empty input, after
\* create_matches had already recorded an earlier pair.
C2_Witness ==
    /\ HasUnmatchedSkipLeft(program)
    /\ phase = "panicked"
    /\ arg_input # <<>>
    /\ DOMAIN matches # {}

\* C3: on a balanced program the finite tape and pointer behave as the
\* bi-infinite all-Zero tape of the reference machine: after every step the
\* bit under the pointer is the reference bit at the head, every physical
\* cell holds the reference bit of its logical position (the head's position
\* plus the cell's distance from the pointer), and the outputs are equal.
C3_TapeRefinesInfiniteTape ==
    (Balanced(program) /\ phase \in {"running", "returned"}) =>
        /\ pointer < Len(tape)
        /\ tape[pointer + 1] = AbsBit(abs, abs.head)
        /\ \A k \in 0 .. Len(tape) - 1 :
              tape[k + 1] = AbsBit(abs, abs.head + k - pointer)
        /\ output = abs.output

\* C3 witness: the tape has grown to the left of a cell holding One, the
\* pointer is on the new first cell, and a bit was written.
C3_Witness ==
    /\ Balanced(program)
    /\ phase = "returned"
    /\ Len(tape) >= 2
    /\ pointer = 0
    /\ abs.head < 0
    /\ abs.ones # {}
    /\ output # <<>>

\* The program is n MoveLeft and all n have been executed.
AfterMoveLefts(n) ==
    /\ program = [k \in 1 .. n |-> "MoveLeft"]
    /\ steps = n
    /\ phase \in {"running", "returned"}

\* C4 as stated: after one MoveLeft on the initial tape the tape is two Zero
\* cells and the pointer is on the cell the tape started with, not on the
\* added one; after three MoveLeft the tape has 4 cells.
C4_PointerOnOriginalCell ==
    /\ AfterMoveLefts(1) => (tape = <<Zero, Zero>> /\ pointer = origin)
    /\ AfterMoveLefts(3) => Len(tape) = 4

\* C4 amended: after one MoveLeft on the initial tape the tape is two Zero
\* cells and the pointer (index 0) is on the added cell, directly left of the
\* cell the tape started with (now index 1); after three MoveLeft the tape
\* has 4 cells.
C4_PointerOnAddedCell ==
    /\ AfterMoveLefts(1) => (tape = <<Zero, Zero>> /\ pointer = 0 /\ origin = 1)
    /\ AfterMoveLefts(3) => Len(tape) = 4

\* C4 witness: the single MoveLeft has run.
C4_Witness == AfterMoveLefts(1) /\ Len(tape) = 2 /\ pointer = origin - 1

\* C5: in every state of a run the tape is non-empty and the pointer is
\* within it.
C5_PointerInBounds ==
    phase # "idle" => (Len(tape) >= 1 /\ 0 <= pointer /\ pointer < Len(tape))

\* C5 witness: the tape has grown at both ends and the pointer is on its
\* last cell.
C5_Witness ==
    /\ Len(tape) >= 3
    /\ origin >= 1
    /\ pointer = Len(tape) - 1

\* This step is an iteration of the loop that executes instr.
Executes(instr) ==
    /\ phase = "running"
    /\ steps' = steps + 1
    /\ Fetched = instr

IsSuffix(s, t) == Len(s) <= Len(t) /\ s = SubSeq(t, Len(t) - Len(s) + 1, Len(t))
IsPrefix(s, t) == Len(s) <= Len(t) /\ s = SubSeq(t, 1, Len(s))

\* C6: the remaining input is always a suffix of the initial input; the k-th
\* Read of a run stores the k-th initial input bit under the pointer if there
\* is one and Zero otherwise; a Read on an empty queue leaves it empty,
\* advances the program counter by one and does not fail.
C6_InputConsumedFromFront ==
    /\ [](IsSuffix(input, arg_input))
    /\ [][Executes("Read") =>
            /\ phase' = "running"
            /\ pointer' = pointer
            /\ tape'[pointer + 1] =
                  (IF reads' <= Len(arg_input) THEN arg_input[reads'] ELSE Zero)
            /\ input = <<>> =>
                  (input' = <<>> /\ program_pointer' = program_pointer + 1)]_vars

\* C6 witness: three Reads on an input of two different bits.
C6_Witness ==
    /\ reads = 3
    /\ Len(arg_input) = 2
    /\ arg_input[1] # arg_input[2]
    /\ input = <<>>
    /\ phase \in {"running", "returned"}

\* C7: across every step the old output is a prefix of the new one; a Write
\* appends exactly the bit under the pointer, every other step leaves the
\* output as it is; so its length is the number of Writes executed.
C7_OutputAppendOnly ==
    /\ [](Len(output) = writes)
    /\ [][/\ IsPrefix(output, output')
          /\ Executes("Write") => output' = Append(output, tape[pointer + 1])
          /\ ~Executes("Write") => output' = output]_vars

\* C7 witness: two Writes of different bits.
C7_Witness ==
    /\ writes >= 2
    /\ Len(output) >= 2
    /\ output[1] # output[2]

(***************************************************************************)
(* Properties of the codec (SpecCodec)                                     *)
(***************************************************************************)
\* C8: to_bytes(from_bytes(B)) = B for every byte sequence B.
C8_BytesRoundTrip ==
    (codec_pc = "done" /\ codec_in.kind = "bytes") => codec_out = codec_in.val

\* C8 witness: the round trip of two different bytes, one with its high bit set.
C8_Witness ==
    /\ codec_pc = "done"
    /\ codec_in.kind = "bytes"
    /\ codec_in.val = <<128, 3>>

\* S followed by Zero bits up to the next multiple of 8.
PadZero(S) == S \o [k \in 1 .. ((8 - (Len(S) % 8)) % 8) |-> Zero]

\* C9: from_bytes(to_bytes(S)) is S when the length of S is a multiple of 8,
\* and otherwise S followed by Zero bits up to the next multiple of 8.
C9_BitsRoundTripPads ==
    (codec_pc = "done" /\ codec_in.kind = "bits") =>
        /\ Len(codec_in.val) % 8 = 0 => codec_out = codec_in.val
        /\ Len(codec_in.val) % 8 # 0 =>
              /\ codec_out = PadZero(codec_in.val)
              /\ Len(codec_out) = 8 * (Len(codec_in.val) \div 8) + 8

\* C9 witness: the round trip of nine bits ending in One.
C9_Witness ==
    /\ codec_pc = "done"
    /\ codec_in.kind = "bits"
    /\ Len(codec_in.val) = 9
    /\ codec_in.val[9] = One
    /\ Len(codec_out) = 16

\* Bit i of a byte is set.
BitSet(byte, i) == (byte \div 2 ^ i) % 2 = 1

\* C10: from_bytes of n bytes is 8*n bits, and bit 8*j+i is One exactly when
\* bit i of byte j is set.
C10_FromBytesLsbFirst ==
    (codec_pc # "start" /\ codec_in.kind = "bytes") =>
        /\ Len(codec_mid) = 8 * Len(codec_in.val)
        /\ \A j \in 0 .. Len(codec_in.val) - 1 : \A i \in 0 .. 7 :
              (codec_mid[8 * j + i + 1] = One) <=> BitSet(codec_in.val[j + 1], i)

\* C10 witness: two bytes decoded, the second different from the first.
C10_Witness ==
    /\ codec_pc = "mid"
    /\ codec_in.kind = "bytes"
    /\ codec_in.val = <<1, 6>>
    /\ Len(codec_mid) = 16

\* C11: to_bytes of m bits is ceil(m/8) bytes (none for no bits), each at
\* most 255; bit i of byte j is set exactly when position 8*j+i exists in the
\* sequence and holds One, so the bits a short last group lacks are 0.
C11_ToBytesPacksLsbFirst ==
    (codec_pc # "start" /\ codec_in.kind = "bits") =>
        /\ Len(codec_mid) = (Len(codec_in.val) + 7) \div 8
        /\ codec_in.val = <<>> => codec_mid = <<>>
        /\ \A j \in 0 .. Len(codec_mid) - 1 :
              /\ codec_mid[j + 1] \in 0 .. 255
              /\ \A i \in 0 .. 7 :
                    BitSet(codec_mid[j + 1], i) <=>
                        /\ 8 * j + i + 1 <= Len(codec_in.val)
                        /\ codec_in.val[8 * j + i + 1] = One

\* C11 witness: nine bits, the first and the last One, packed into a full
\* byte and a byte of one bit.
C11_Witness ==
    /\ codec_pc = "mid"
    /\ codec_in.kind = "bits"
    /\ Len(codec_in.val) = 9
    /\ codec_in.val[1] = One
    /\ codec_in.val[9] = One
    /\ Len(codec_mid) = 2
    /\ codec_mid[2] = 1

(***************************************************************************)
(* Properties of parse (SpecParse)                                         *)
(***************************************************************************)
\* The instruction each recognized character stands for.
Meaning ==
    [ch \in RecognizedChars |->
        CASE ch = "+" -> "Flip"
          [] ch = "," -> "Read"
          [] ch = ";" -> "Write"
          [] ch = "<" -> "MoveLeft"
          [] ch = ">" -> "MoveRight"
          [] ch = "[" -> "SkipRight"
          [] ch = "]" -> "SkipLeft"]

\* Number of recognized characters among the first k of text.
RecognizedUpTo(text, k) == Cardinality({n \in 1 .. k : text[n] \in RecognizedChars})

\* C12: parse returns the subsequence of the recognized characters of the
\* text, in source order, each as its instruction: the program is as long as
\* the number of recognized characters, and the n-th recognized character
\* gives the n-th instruction; every other character is dropped, brackets
\* are passed through whether balanced or not.
C12_ParseKeepsRecognized ==
    bf_pc = "from_bytes" =>
        /\ Len(instructions) = RecognizedUpTo(code, Len(code))
        /\ DOMAIN instructions = 1 .. Len(instructions)
        /\ \A k \in 1 .. Len(code) :
              code[k] \in RecognizedChars =>
                  instructions[RecognizedUpTo(code, k)] = Meaning[code[k]]

\* C12 witness: an unmatched `]`, a dropped character, then `<`.
C12_Witness ==
    /\ bf_pc = "from_bytes"
    /\ code = <<"]", "a", "<">>
    /\ instructions = <<"SkipLeft", "MoveLeft">>

(***************************************************************************)
(* Properties of boolfuck (SpecBoolfuck)                                   *)
(***************************************************************************)
\* C13: boolfuck returns the written bits, in execution order, packed
\* least-significant bit first; on 8*k repetitions of `,;` the result is k
\* bytes: the first k input bytes, with 0 for each that was not supplied.
C13_BoolfuckEchoesBytes ==
    bf_pc = "done" =>
        /\ Len(result) = (Len(output) + 7) \div 8
        /\ \A j \in 0 .. Len(result) - 1 : \A i \in 0 .. 7 :
              BitSet(result[j + 1], i) <=>
                  (8 * j + i + 1 <= Len(output) /\ output[8 * j + i + 1] = One)
        /\ Balanced(instructions) => output = abs.output
        /\ \A k \in 0 .. MaxEchoBytes :
              code = EchoText(k) =>
                  /\ Len(result) = k
                  /\ \A j \in 1 .. k :
                        result[j] = IF j <= Len(in_bytes) THEN in_bytes[j] ELSE 0

\* C13 witness: sixteen repetitions of `,;` on a single input byte.
C13_Witness ==
    /\ bf_pc = "done"
    /\ code = EchoText(2)
    /\ in_bytes = <<6>>
    /\ result = <<6, 0>>

(***************************************************************************)
(* Properties of the jump table and of the loop (Spec)                     *)
(***************************************************************************)
\* The 0-based positions of prog holding instr.
PositionsOf(prog, instr) == {i \in 0 .. Len(prog) - 1 : prog[i + 1] = instr}

\* C14: on a balanced program, once create_matches has run, the jump table
\* is defined exactly on the SkipRight and SkipLeft positions, is symmetric,
\* takes each SkipRight to a later SkipLeft and each SkipLeft to an earlier
\* SkipRight, pairs no two brackets across each other, and no iteration of
\* the loop changes it.
C14_JumpTableWellFormed ==
    /\ [](Balanced(program) /\ phase \in {"running", "returned"} =>
            LET opens == PositionsOf(program, "SkipRight")
                closes == PositionsOf(program, "SkipLeft")
            IN  /\ DOMAIN matches = opens \cup closes
                /\ \A i \in DOMAIN matches :
                      matches[i] \in DOMAIN matches /\ matches[matches[i]] = i
                /\ \A i \in opens : matches[i] \in closes /\ matches[i] > i
                /\ \A i \in closes : matches[i] \in opens /\ matches[i] < i
                /\ \A a \in opens, c \in opens :
                      ~(a < c /\ c < matches[a] /\ matches[a] < matches[c]))
    /\ [][phase = "running" => matches' = matches]_vars

\* C14 witness: the run of a program with a loop inside a loop has returned.
C14_Witness ==
    /\ program = <<"Flip", "SkipRight", "SkipRight", "Flip", "SkipLeft", "SkipLeft">>
    /\ phase = "returned"
    /\ matches[1] = 5
    /\ matches[2] = 4
    /\ steps > 0

\* C15: a step that executes SkipRight or SkipLeft leaves tape, pointer,
\* input queue and output sequence as they are.  SkipRight sets the program
\* counter to the index of the matching SkipLeft when the bit under the
\* pointer is Zero and adds one otherwise; SkipLeft sets it to the index of
\* the matching SkipRight when the bit is One and adds one otherwise (the
\* matching index being that of the program text, where the text has one).
\* So one iteration after a SkipRight met Zero, control is right after the
\* matching SkipLeft with tape, pointer, input and output as before the loop.
C15_SkipsChangeOnlyProgramCounter ==
    /\ [][(Executes("SkipRight") \/ Executes("SkipLeft")) =>
            /\ tape' = tape
            /\ pointer' = pointer
            /\ input' = input
            /\ output' = output
            /\ IF tape[pointer + 1] = (IF Fetched = "SkipRight" THEN Zero ELSE One)
               THEN Matching(program, program_pointer) # {} =>
                        /\ phase' = "running"
                        /\ program_pointer' = MatchOf(program, program_pointer)
                        /\ program[program_pointer' + 1] =
                              (IF Fetched = "SkipRight" THEN "SkipLeft" ELSE "SkipRight")
               ELSE /\ phase' = "running"
                    /\ program_pointer' = program_pointer + 1]_vars
    /\ []((/\ last_skip.step >= 0
           /\ steps = last_skip.step + 1
           /\ Matching(program, last_skip.from) # {}) =>
            /\ program_pointer = MatchOf(program, last_skip.from) + 1
            /\ tape = last_skip.tape
            /\ pointer = last_skip.pointer
            /\ input = last_skip.input
            /\ output = last_skip.output)

\* C15 witness: the first program of test_skip has run: its loop was met with
\* Zero, and two iterations later the run is past the loop with the tape Zero.
C15_Witness ==
    /\ program = <<"SkipRight", "Flip", "SkipLeft">>
    /\ phase = "returned"
    /\ last_skip.step = 1
    /\ steps = 2
    /\ program_pointer = 3
    /\ tape = <<Zero>>

\* C16: the tape grows by exactly one Zero cell per boundary crossing and
\* never otherwise.  A step changes the length of the tape only when it is a
\* MoveLeft at pointer 0 (Zero put in front of the cells, pointer still 0) or
\* a MoveRight at the last index (Zero put behind them, pointer on the new
\* last index); the cells that existed keep contents and order; the length
\* never decreases; and the length is always 1 + the farthest the pointer
\* has been left of the start cell + the farthest it has been right of it.
C16_TapeGrowsOnlyAtBoundary ==
    /\ [][LET growsLeft == Executes("MoveLeft") /\ pointer = 0
              growsRight == Executes("MoveRight") /\ pointer = Len(tape) - 1
          IN  /\ Len(tape') >= Len(tape)
              /\ growsLeft => (tape' = <<Zero>> \o tape /\ pointer' = 0)
              /\ growsRight => (tape' = Append(tape, Zero) /\ pointer' = Len(tape') - 1)
              /\ ~(growsLeft \/ growsRight) => Len(tape') = Len(tape)]_vars
    /\ [](phase # "idle" => Len(tape) = 1 + excursion.left + excursion.right)

\* C16 witness: the tape has grown once at each end and the pointer has come
\* back inside it.
C16_Witness ==
    /\ excursion.left = 1
    /\ excursion.right = 1
    /\ Len(tape) = 3
    /\ pointer = 1
    /\ steps = 4

\* The program has no SkipRight and no SkipLeft.
NoBrackets(prog) == \A k \in 1 .. Len(prog) : prog[k] \notin {"SkipRight", "SkipLeft"}

\* C17: every program with no SkipRight and no SkipLeft terminates, for
\* every input, after exactly len(program) steps: the k-th step executes the
\* k-th instruction of the program and moves the program counter from k - 1
\* to k, no step fails, and interpret() returns with the program counter
\* equal to len(program).
C17_StraightLineTerminates ==
    /\ [](NoBrackets(program) =>
            /\ phase # "panicked"
            /\ phase \in {"running", "returned"} => program_pointer = steps
            /\ steps <= Len(program)
            /\ phase = "returned" =>
                  (steps = Len(program) /\ program_pointer = Len(program)))
    /\ [][(NoBrackets(program) /\ steps' # steps) =>
            /\ steps' = steps + 1
            /\ Fetched = program[steps + 1]
            /\ program_pointer' = program_pointer + 1]_vars
    /\ (NoBrackets(program) => <>(phase = "returned"))

\* C17 witness: a program without brackets, one instruction of each kind
\* among them, has returned after as many steps as it is long.
C17_Witness ==
    /\ NoBrackets(program)
    /\ program = <<"Read", "Write", "MoveRight", "Read", "Write", "MoveRight", "Read", "Write">>
    /\ phase = "returned"
    /\ steps = Len(program)

\* How many of the transitions of the loop of interpret() can be taken.
EnabledTransitions ==
    Cardinality({k \in 1 .. 8 :
        <<ENABLED StepFlip, ENABLED StepRead, ENABLED StepWrite,
          ENABLED StepMoveLeft, ENABLED StepMoveRight, ENABLED StepSkipLeft,
          ENABLED StepSkipRight, ENABLED InterpretReturn>>[k]})

\* C18: for every balanced program and every input the run never gets stuck
\* and never fails: the program counter stays within 0 .. len(program), a
\* jump-table lookup made by skip_left or skip_right finds its entry, exactly
\* one transition (with one outcome) can be taken while the program counter
\* is below len(program), and interpret() returns only with the program
\* counter equal to len(program).
C18_BalancedRunNeverFails ==
    Balanced(program) =>
        /\ phase # "panicked"
        /\ 0 <= program_pointer
        /\ program_pointer <= Len(program)
        /\ (phase = "running" /\ program_pointer < Len(program)) =>
              /\ (Fetched = "SkipLeft" /\ tape[pointer + 1] = One) =>
                    ~get_matching_pointer(Self, program_pointer).panic
              /\ (Fetched = "SkipRight" /\ tape[pointer + 1] = Zero) =>
                    ~get_matching_pointer(Self, program_pointer).panic
              /\ Fetched = "MoveRight" => Cardinality(move_right(Self)) = 1
              /\ ~ENABLED InterpretReturn
              /\ steps < MaxSteps => EnabledTransitions = 1
        /\ (phase = "running" /\ program_pointer >= Len(program)) =>
              EnabledTransitions = 1
        /\ phase = "returned" => program_pointer = Len(program)

\* C18 witness: a balanced program has returned after its SkipLeft sent
\* control back through the jump table.
C18_Witness ==
    /\ Balanced(program)
    /\ Count(program, "SkipLeft", 1, Len(program)) >= 1
    /\ phase = "returned"
    /\ steps > Len(program)

\* This step executes instr and moves the program counter to the next index.
MovesToNext(instr) == Executes(instr) /\ program_pointer' = program_pointer + 1

\* C19 as stated: for every balanced program, whenever the program counter
\* moves from a SkipLeft index i to i + 1 the bit under the pointer is Zero,
\* and whenever it moves from a SkipRight index j to j + 1 the bit under the
\* pointer is One.
C19_NextIndexTellsBit ==
    [][Balanced(program) =>
         /\ MovesToNext("SkipLeft") => tape[pointer + 1] = Zero
         /\ MovesToNext("SkipRight") => tape[pointer + 1] = One]_vars

\* C19 amended: for every balanced program, whenever the program counter
\* moves from a SkipLeft index i to i + 1 the bit under the pointer is Zero,
\* and whenever it moves from a SkipRight index j to j + 1 that is not the
\* index of its matching SkipLeft the bit under the pointer is One.  When
\* the SkipLeft directly follows (an empty loop body), the program counter
\* moves to j + 1 for either bit: the jump taken on Zero lands there too.
C19_FallThroughTellsBit ==
    [][Balanced(program) =>
         /\ MovesToNext("SkipLeft") => tape[pointer + 1] = Zero
         /\ (/\ MovesToNext("SkipRight")
             /\ MatchOf(program, program_pointer) # program_pointer + 1) =>
               tape[pointer + 1] = One
         /\ (/\ Executes("SkipRight")
             /\ MatchOf(program, program_pointer) = program_pointer + 1) =>
               program_pointer' = program_pointer + 1]_vars

\* C19 witness: both loops of a nested pair were entered through their
\* SkipRight and left through their SkipLeft.
C19_Witness ==
    /\ program = <<"Flip", "SkipRight", "SkipRight", "Flip", "SkipLeft", "SkipLeft">>
    /\ phase = "returned"
    /\ steps = Len(program)
    /\ tape = <<Zero>>

\* The other value of Bit.
Opposite(b) == CHOOSE c \in Bit : c # b

\* C20: Flip replaces only the bit under the pointer by its opposite and
\* advances the program counter by one; every other cell, the pointer, the
\* input and the output stay as they are.  Two Flips in a row restore the
\* tape: after n Flips in a row the tape is the one before them when n is
\* even, and differs from it in exactly the cell under the pointer when n is
\* odd, so a cell that was Zero is One exactly when n is odd.
C20_FlipTogglesCellUnderPointer ==
    /\ [][Executes("Flip") =>
            /\ tape' = [tape EXCEPT ![pointer + 1] = Opposite(tape[pointer + 1])]
            /\ program_pointer' = program_pointer + 1
            /\ UNCHANGED <<pointer, input, output>>]_vars
    /\ [](flips.count > 0 =>
            /\ flips.count % 2 = 0 => tape = flips.tape
            /\ flips.count % 2 = 1 =>
                  tape = [flips.tape EXCEPT ![pointer + 1] = Opposite(@)]
            /\ flips.tape[pointer + 1] = Zero =>
                  ((tape[pointer + 1] = One) <=> (flips.count % 2 = 1)))

\* C20 witness: three Flips in a row have run on a cell that was Zero and is
\* not the only cell of the tape.
C20_Witness ==
    /\ flips.count = 3
    /\ Len(tape) >= 2
    /\ flips.tape[pointer + 1] = Zero
    /\ tape[pointer + 1] = One

====
